---- MODULE Spec2Model ----
(***************************************************************************)
(* Model of youtube-shorts-traffic-collector.py: the orchestrator main(),  *)
(* the capture thread capture_packets(), the interaction session           *)
(* simulate_shorts() and the full-watch loop of watch_short().             *)
(*                                                                         *)
(* Units: probabilities are hundredths (35 is 0.35), times are             *)
(* centiseconds (100 is 1.0 s).                                            *)
(***************************************************************************)
EXTENDS Integers, Sequences, FiniteSets, TLC

\* ------------------------------------------------------------------ bounds
MaxCycles == 2
MaxShorts == 3
MaxPkts == 2
\* a saturating ceiling for the poll counter kept for the stop latency
MaxCount == 3

\* ------------------------------------------------------- program constants
WatchProbabilityDefault == 35
HalfWatchProbabilityDefault == 45
IdleProbabilityDefault == 12
FallbackDurationDefault == 3000
MaxDurationDefault == 12000
FullWatchGraceDefault == 1000
MinDuration == 500
SleepStep == 100
PositionSlack == 50

VARIABLES
    \* main()
    mainPc,      \* position of the main thread in main()
    c,           \* the loop variable of "for c in range(args.cycles)"
    args,        \* the parsed command line: cycles, shorts, the four knobs
    behavior,    \* the frozen Behavior built at lines 286-291
    exc,         \* the exception raised in the main thread, if any
    \* stop_capture_flag
    flag,
    \* capture_packets(), one thread per cycle (thread t belongs to cycle t)
    capPc,       \* position of each capture thread
    captured,    \* the local accumulator of each capture thread
    polled,      \* per running thread, the non-empty lists its sniff calls returned
    nextPkt,     \* number of packets that have arrived on the interface
    wrpcapCalls, \* per thread, the packet lists handed to wrpcap
    pcapWritten, \* per thread, whether wrpcap completed for its file
    sniffError,  \* per thread, whether sniff raised
    pollsAfterSet, \* per running thread, polls finished while the flag was set
    sawFlag,     \* per running thread, whether its loop test read the flag as set
    \* simulate_shorts()
    sessPc,      \* position inside simulate_shorts, "idle" outside it
    i,           \* the loop variable of "for i in range(cycle_shorts)"
    mode,        \* decision for the current short: skip, half or full
    driver,      \* none, live or quit
    quitCalls,   \* calls of driver.quit() in the current session
    itemSleeps,  \* the time.sleep calls made so far for the current short
    fullWatches, \* calls of watch_short(mode="full") that returned, in this session
    openTrace,   \* the steps open_shorts has made in this session, in order
    \* watch_short()
    wPc,         \* position inside watch_short
    wMode,       \* the mode argument
    wReported,   \* what get_video_duration returned
    wDuration,   \* the resolved duration
    wElapsed,    \* time.time() - start
    wExit,       \* how watch_short returned
    \* pcap_path of lines 299-300
    pcapPaths    \* the paths computed so far: records [c, timestamp, path]

mainVars == <<mainPc, c, args, behavior, exc>>
capVars == <<capPc, captured, polled, nextPkt, wrpcapCalls, pcapWritten, sniffError,
            pollsAfterSet, sawFlag>>
sessVars == <<sessPc, i, mode, driver, quitCalls, itemSleeps, fullWatches, openTrace>>
watchVars == <<wPc, wMode, wReported, wDuration, wElapsed, wExit>>
pathVars == <<pcapPaths>>
vars == <<mainVars, flag, capVars, sessVars, watchVars, pathVars>>

Threads == 1..MaxCycles

\* ----------------------------------------------------------------- helpers
Max(a, b) == IF a >= b THEN a ELSE b
Min(a, b) == IF a <= b THEN a ELSE b

\* draws from the closed interval [0, 1]
DrawsClosed == {0, 99, 100}

\* random.random() < p, for the draws the model enumerates
Draws == {0, 99}

\* CLI inputs enumerated for the knobs: <<--watch-prob, --half-watch-prob>>
\* (below range, the defaults, above range) and the two durations
ProbArgs == {<<-20, HalfWatchProbabilityDefault>>,
             <<WatchProbabilityDefault, HalfWatchProbabilityDefault>>,
             <<170, -20>>}
DurationArgs == {-100, 300, 3000}
WatchProbInputs == {-20, 0, WatchProbabilityDefault, 100, 170}
HalfWatchProbInputs == {-20, HalfWatchProbabilityDefault, 170}
GraceValues == {0, 250, FullWatchGraceDefault}

\* a Behavior built from the raw command-line values
BuildBehaviorNoClamp(watch_prob, half_watch_prob, max_duration, fallback_duration) ==
    [ watch_probability      |-> watch_prob,
      half_watch_probability |-> half_watch_prob,
      max_duration_s         |-> max_duration,
      fallback_duration_s    |-> fallback_duration,
      full_watch_grace_s     |-> FullWatchGraceDefault,
      idle_probability       |-> IdleProbabilityDefault ]

\* Behavior(...) as main() builds it
BuildBehavior(watch_prob, half_watch_prob, max_duration, fallback_duration) ==
    [ watch_probability      |-> Max(0, Min(100, watch_prob)),
      half_watch_probability |-> Max(0, Min(100, half_watch_prob)),
      max_duration_s         |-> Max(MinDuration, max_duration),
      fallback_duration_s    |-> Max(MinDuration, fallback_duration),
      full_watch_grace_s     |-> FullWatchGraceDefault,
      idle_probability       |-> IdleProbabilityDefault ]

\* packets number nextPkt+1 .. nextPkt+k, in arrival order
Arrivals(k) == [j \in 1..k |-> nextPkt + j]

CaptureRunning(t) == capPc[t] \in {"begin", "while", "sniff", "wrpcap", "except"}

InitCapture ==
    /\ flag = FALSE
    /\ capPc = [t \in Threads |-> "unstarted"]
    /\ captured = [t \in Threads |-> <<>>]
    /\ polled = [t \in Threads |-> <<>>]
    /\ nextPkt = 0
    /\ wrpcapCalls = [t \in Threads |-> <<>>]
    /\ pcapWritten = [t \in Threads |-> FALSE]
    /\ sniffError = [t \in Threads |-> FALSE]
    /\ pollsAfterSet = [t \in Threads |-> 0]
    /\ sawFlag = [t \in Threads |-> FALSE]

InitSession ==
    /\ sessPc = "idle"
    /\ i = 0
    /\ mode = "none"
    /\ driver = "none"
    /\ quitCalls = 0
    /\ itemSleeps = {}
    /\ fullWatches = 0
    /\ openTrace = <<>>

InitWatch ==
    /\ wPc = "idle"
    /\ wMode = "none"
    /\ wReported = 0
    /\ wDuration = 0
    /\ wElapsed = 0
    /\ wExit = "none"

InitPaths == pcapPaths = {}

Init ==
    /\ mainPc = "for"
    /\ c = 0
    /\ \E cycles \in 0..MaxCycles, shorts \in 0..MaxShorts, p \in ProbArgs :
          /\ args = [cycles |-> cycles, shorts |-> shorts, watch_prob |-> p[1],
                     half_watch_prob |-> p[2], max_duration |-> MaxDurationDefault,
                     fallback_duration |-> FallbackDurationDefault]
          /\ behavior = BuildBehavior(p[1], p[2], MaxDurationDefault, FallbackDurationDefault)
    /\ exc = "none"
    /\ InitCapture
    /\ InitSession
    /\ InitWatch
    /\ InitPaths

\* ------------------------------------------------------- capture_packets()
\* the saturating count of polls a thread finished while the flag was set
CountPoll(t) ==
    pollsAfterSet' = [pollsAfterSet EXCEPT ![t] = IF flag THEN Min(@ + 1, MaxCount) ELSE @]

\* lines 105-106: log, captured = []
CapBegin(t) ==
    /\ capPc[t] = "begin"
    /\ capPc' = [capPc EXCEPT ![t] = "while"]
    /\ captured' = [captured EXCEPT ![t] = <<>>]
    /\ polled' = [polled EXCEPT ![t] = <<>>]
    /\ pollsAfterSet' = [pollsAfterSet EXCEPT ![t] = 0]
    /\ sawFlag' = [sawFlag EXCEPT ![t] = FALSE]
    /\ UNCHANGED <<mainVars, flag, nextPkt, wrpcapCalls, pcapWritten, sniffError, sessVars,
                   watchVars, pathVars>>

\* a loop test that never sees the flag
CapWhileIgnoresFlag(t) ==
    /\ capPc[t] = "while"
    /\ capPc' = [capPc EXCEPT ![t] = "sniff"]
    /\ sawFlag' = [sawFlag EXCEPT ![t] = flag]
    /\ UNCHANGED <<mainVars, flag, captured, polled, nextPkt, wrpcapCalls, pcapWritten,
                   sniffError, pollsAfterSet, sessVars, watchVars, pathVars>>

\* line 109: while not stop_capture_flag.is_set()
CapWhile(t) ==
    /\ capPc[t] = "while"
    /\ capPc' = [capPc EXCEPT ![t] = IF flag THEN "wrpcap" ELSE "sniff"]
    /\ sawFlag' = [sawFlag EXCEPT ![t] = flag]
    /\ UNCHANGED <<mainVars, flag, captured, polled, nextPkt, wrpcapCalls, pcapWritten,
                   sniffError, pollsAfterSet, sessVars, watchVars, pathVars>>

\* a poll whose packets replace the accumulator
CapSniffReturnsOverwrites(t) ==
    /\ capPc[t] = "sniff"
    /\ \E k \in 0..Min(2, MaxPkts - nextPkt) :
          /\ captured' = [captured EXCEPT ![t] = IF k > 0 THEN Arrivals(k) ELSE @]
          /\ polled' = [polled EXCEPT ![t] = IF k > 0 THEN Append(@, Arrivals(k)) ELSE @]
          /\ nextPkt' = nextPkt + k
    /\ capPc' = [capPc EXCEPT ![t] = "while"]
    /\ CountPoll(t)
    /\ UNCHANGED <<mainVars, flag, wrpcapCalls, pcapWritten, sniffError, sawFlag, sessVars,
                   watchVars, pathVars>>

\* lines 110-112: one sniff(timeout=poll_timeout_s) that returns k packets; an
\* empty result adds nothing to the accumulator
CapSniffReturns(t) ==
    /\ capPc[t] = "sniff"
    /\ \E k \in 0..Min(2, MaxPkts - nextPkt) :
          /\ captured' = [captured EXCEPT ![t] = IF k > 0 THEN @ \o Arrivals(k) ELSE @]
          /\ polled' = [polled EXCEPT ![t] = IF k > 0 THEN Append(@, Arrivals(k)) ELSE @]
          /\ nextPkt' = nextPkt + k
    /\ capPc' = [capPc EXCEPT ![t] = "while"]
    /\ CountPoll(t)
    /\ UNCHANGED <<mainVars, flag, wrpcapCalls, pcapWritten, sniffError, sawFlag, sessVars,
                   watchVars, pathVars>>

\* line 110 raising: the try of line 108 encloses the loop, so control leaves
\* the loop for the handler of line 117
CapSniffRaises(t) ==
    /\ capPc[t] = "sniff"
    /\ capPc' = [capPc EXCEPT ![t] = "except"]
    /\ sniffError' = [sniffError EXCEPT ![t] = TRUE]
    /\ CountPoll(t)
    /\ UNCHANGED <<mainVars, flag, captured, polled, nextPkt, wrpcapCalls, pcapWritten,
                   sawFlag, sessVars, watchVars, pathVars>>

\* lines 114-115: wrpcap(filename, captured), which writes the file or raises;
\* the thread's locals and its poll count are gone once the function returns
CapWrpcap(t) ==
    /\ capPc[t] = "wrpcap"
    /\ wrpcapCalls' = [wrpcapCalls EXCEPT ![t] = Append(@, captured[t])]
    /\ \E ok \in BOOLEAN :
          /\ pcapWritten' = [pcapWritten EXCEPT ![t] = ok]
          /\ capPc' = [capPc EXCEPT ![t] = IF ok THEN "done" ELSE "except"]
          /\ captured' = [captured EXCEPT ![t] = IF ok THEN <<>> ELSE @]
          /\ polled' = [polled EXCEPT ![t] = IF ok THEN <<>> ELSE @]
          /\ pollsAfterSet' = [pollsAfterSet EXCEPT ![t] = IF ok THEN 0 ELSE @]
          /\ sawFlag' = [sawFlag EXCEPT ![t] = IF ok THEN FALSE ELSE @]
    /\ UNCHANGED <<mainVars, flag, nextPkt, sniffError, sessVars, watchVars, pathVars>>

\* lines 117-118: log the error; the function returns
CapExcept(t) ==
    /\ capPc[t] = "except"
    /\ capPc' = [capPc EXCEPT ![t] = "done"]
    /\ captured' = [captured EXCEPT ![t] = <<>>]
    /\ polled' = [polled EXCEPT ![t] = <<>>]
    /\ pollsAfterSet' = [pollsAfterSet EXCEPT ![t] = 0]
    /\ sawFlag' = [sawFlag EXCEPT ![t] = FALSE]
    /\ UNCHANGED <<mainVars, flag, nextPkt, wrpcapCalls, pcapWritten, sniffError, sessVars,
                   watchVars, pathVars>>

Capture(t) ==
    \/ CapBegin(t)
    \/ CapWhile(t)
    \/ CapSniffReturns(t)
    \/ CapSniffRaises(t)
    \/ CapWrpcap(t)
    \/ CapExcept(t)

\* ------------------------------------------------------------------ main()
\* the thread of the current cycle
Cur == c + 1

TryPcs == {"for", "start", "warmup", "session", "set", "join", "completed", "delay"}

\* a loop head that leaves the flag as the previous cycle set it
MainForNoClear ==
    /\ mainPc = "for"
    /\ mainPc' = IF c < args.cycles THEN "start" ELSE "finally"
    /\ UNCHANGED <<c, args, behavior, exc, flag, capVars, sessVars, watchVars, pathVars>>

\* lines 294-302: next c, or leave the loop; timestamp, path, clear the flag
MainFor ==
    /\ mainPc = "for"
    /\ IF c < args.cycles
         THEN /\ flag' = FALSE
              /\ mainPc' = "start"
         ELSE /\ mainPc' = "finally"
              /\ UNCHANGED flag
    /\ UNCHANGED <<c, args, behavior, exc, capVars, sessVars, watchVars, pathVars>>

\* lines 304-309: Thread(..., daemon=True).start(), which may raise RuntimeError
MainStart ==
    /\ mainPc = "start"
    /\ \/ /\ capPc' = [capPc EXCEPT ![Cur] = "begin"]
          /\ mainPc' = "warmup"
          /\ UNCHANGED exc
       \/ /\ exc' = "Exception"
          /\ mainPc' = "except"
          /\ UNCHANGED capPc
    /\ UNCHANGED <<c, args, behavior, flag, captured, polled, nextPkt, wrpcapCalls,
                   pcapWritten, sniffError, pollsAfterSet, sawFlag, sessVars, watchVars,
                   pathVars>>

\* lines 312-314: time.sleep(2), then the call of simulate_shorts
MainWarmup ==
    /\ mainPc = "warmup"
    /\ mainPc' = "session"
    /\ sessPc' = "build"
    /\ UNCHANGED <<c, args, behavior, exc, flag, capVars, i, mode, driver, quitCalls,
                   itemSleeps, fullWatches, openTrace, watchVars, pathVars>>

\* line 321: stop_capture_flag.set()
MainSet ==
    /\ mainPc = "set"
    /\ flag' = TRUE
    /\ mainPc' = "join"
    /\ UNCHANGED <<c, args, behavior, exc, capVars, sessVars, watchVars, pathVars>>

\* a join that returns without waiting for the thread
MainJoinNoWait ==
    /\ mainPc = "join"
    /\ mainPc' = "completed"
    /\ UNCHANGED <<c, args, behavior, exc, flag, capVars, sessVars, watchVars, pathVars>>

\* a join that waits for the thread's file instead of the thread's end
MainJoinWaitsForFile ==
    /\ mainPc = "join"
    /\ pcapWritten[Cur]
    /\ mainPc' = "completed"
    /\ UNCHANGED <<c, args, behavior, exc, flag, capVars, sessVars, watchVars, pathVars>>

\* lines 322-323: capture_thread.join() returns once the thread has ended
MainJoin ==
    /\ mainPc = "join"
    /\ capPc[Cur] = "done"
    /\ mainPc' = "completed"
    /\ UNCHANGED <<c, args, behavior, exc, flag, capVars, sessVars, watchVars, pathVars>>

\* lines 325-327: log the cycle; decide on the inter-cycle sleep
MainCompleted ==
    /\ mainPc = "completed"
    /\ IF c < args.cycles - 1
         THEN /\ mainPc' = "delay"
              /\ UNCHANGED c
         ELSE /\ mainPc' = "for"
              /\ c' = c + 1
    /\ UNCHANGED <<args, behavior, exc, flag, capVars, sessVars, watchVars, pathVars>>

\* line 328: time.sleep(3), then back to the loop head
MainDelay ==
    /\ mainPc = "delay"
    /\ mainPc' = "for"
    /\ c' = c + 1
    /\ UNCHANGED <<args, behavior, exc, flag, capVars, sessVars, watchVars, pathVars>>

\* a handler that forgets to set the flag
MainExceptNoSet ==
    /\ mainPc = "except"
    /\ mainPc' = "finally"
    /\ UNCHANGED <<c, args, behavior, exc, flag, capVars, sessVars, watchVars, pathVars>>

\* handlers placed inside the loop: the run goes on with the next cycle
MainExceptContinues ==
    /\ mainPc = "except"
    /\ flag' = TRUE
    /\ mainPc' = "for"
    /\ c' = c + 1
    /\ UNCHANGED <<args, behavior, exc, capVars, sessVars, watchVars, pathVars>>

\* lines 330-336: both handlers log and set the flag
MainExcept ==
    /\ mainPc = "except"
    /\ exc \in {"KeyboardInterrupt", "Exception"}
    /\ flag' = TRUE
    /\ mainPc' = "finally"
    /\ UNCHANGED <<c, args, behavior, exc, capVars, sessVars, watchVars, pathVars>>

\* lines 338-339: log "Done."; main returns
MainFinally ==
    /\ mainPc = "finally"
    /\ mainPc' = "done"
    /\ UNCHANGED <<c, args, behavior, exc, flag, capVars, sessVars, watchVars, pathVars>>

\* lines 307, 342-343: the interpreter exits; it does not wait for daemon
\* threads, which stop wherever they are
ProcessExit ==
    /\ mainPc = "done"
    /\ mainPc' = "exited"
    /\ capPc' = [t \in Threads |-> IF CaptureRunning(t) THEN "killed" ELSE capPc[t]]
    /\ UNCHANGED <<c, args, behavior, exc, flag, captured, polled, nextPkt, wrpcapCalls,
                   pcapWritten, sniffError, pollsAfterSet, sawFlag, sessVars, watchVars,
                   pathVars>>

\* ------------------------------------------------------- simulate_shorts()
\* a draw that also succeeds when it equals p
ChanceInclusive(r, p) == r <= p

\* random.random() < p
Chance(r, p) == r < p

\* an exception that leaves the try block without running the finally clause
SessionRaiseSkipsQuit(e) ==
    /\ exc' = e
    /\ sessPc' = "idle"
    /\ mainPc' = "except"

\* lines 221-245: an exception raised inside the try block goes to the finally
\* clause first
SessionRaise(e) ==
    /\ exc' = e
    /\ sessPc' = "quit"
    /\ mainPc' = mainPc

\* a step inside the try block that only moves on
SessionStep(to) ==
    /\ sessPc' = to
    /\ UNCHANGED <<mainPc, exc>>

\* line 219: build_driver returns a driver or raises, before the try block
SessBuild ==
    /\ mainPc = "session"
    /\ sessPc = "build"
    /\ quitCalls' = 0
    /\ fullWatches' = 0
    /\ \/ /\ driver' = "live"
          /\ SessionStep("get")
       \/ /\ driver' = "none"
          /\ exc' = "Exception"
          /\ sessPc' = "idle"
          /\ mainPc' = "except"
    /\ UNCHANGED <<c, args, behavior, flag, capVars, i, mode, itemSleeps, openTrace, watchVars,
                   pathVars>>

\* lines 132-133: driver.get(url)
SessGet ==
    /\ mainPc = "session"
    /\ sessPc = "get"
    /\ exc = "none"
    /\ \/ /\ SessionStep("settle")
          /\ openTrace' = <<"get">>
       \/ /\ SessionRaise("Exception")
          /\ openTrace' = <<"get_failed">>
    /\ UNCHANGED <<c, args, behavior, flag, capVars, i, mode, driver, quitCalls, itemSleeps,
                   fullWatches, watchVars, pathVars>>

\* lines 135-136: time.sleep(rand_range(page_load_wait_s))
SessSettle ==
    /\ mainPc = "session"
    /\ sessPc = "settle"
    /\ exc = "none"
    /\ SessionStep("cookie")
    /\ openTrace' = Append(openTrace, "settle")
    /\ UNCHANGED <<c, args, behavior, flag, capVars, i, mode, driver, quitCalls, itemSleeps,
                   fullWatches, watchVars, pathVars>>

\* a consent step whose failure is raised to the caller
SessCookieFatal ==
    /\ mainPc = "session"
    /\ sessPc = "cookie"
    /\ exc = "none"
    /\ \/ /\ SessionStep("video")
          /\ openTrace' = Append(openTrace, "cookie_clicked")
       \/ /\ SessionRaise("Exception")
          /\ openTrace' = Append(openTrace, "cookie_failed")
    /\ UNCHANGED <<c, args, behavior, flag, capVars, i, mode, driver, quitCalls, itemSleeps,
                   fullWatches, watchVars, pathVars>>

\* lines 139-149: the cookie button is clicked, or the wait or the click raises
\* and the error is swallowed
SessCookie ==
    /\ mainPc = "session"
    /\ sessPc = "cookie"
    /\ exc = "none"
    /\ SessionStep("video")
    /\ \E clicked \in BOOLEAN :
          openTrace' = Append(openTrace, IF clicked THEN "cookie_clicked" ELSE "cookie_failed")
    /\ UNCHANGED <<c, args, behavior, flag, capVars, i, mode, driver, quitCalls, itemSleeps,
                   fullWatches, watchVars, pathVars>>

\* lines 152-153: wait.until(presence of video), which may time out
SessVideo ==
    /\ mainPc = "session"
    /\ sessPc = "video"
    /\ exc = "none"
    /\ \/ /\ SessionStep("idle0")
          /\ openTrace' = Append(openTrace, "video")
       \/ /\ SessionRaise("Exception")
          /\ openTrace' = Append(openTrace, "video_failed")
    /\ UNCHANGED <<c, args, behavior, flag, capVars, i, mode, driver, quitCalls, itemSleeps,
                   fullWatches, watchVars, pathVars>>

\* line 223: maybe_idle before the first short
SessIdle0 ==
    /\ mainPc = "session"
    /\ sessPc = "idle0"
    /\ exc = "none"
    /\ SessionStep("item")
    /\ i' = 0
    /\ openTrace' = <<>>
    /\ UNCHANGED <<c, args, behavior, flag, capVars, mode, driver, quitCalls, itemSleeps,
                   fullWatches, watchVars, pathVars>>

\* lines 225-235 and 242: the loop head and the watch/skip, half/full draws
SessItem ==
    /\ mainPc = "session"
    /\ sessPc = "item"
    /\ exc = "none"
    /\ IF i < args.shorts
         THEN \E r1 \in Draws, r2 \in Draws :
                 /\ mode' = IF Chance(r1, behavior.watch_probability)
                              THEN IF Chance(r2, behavior.half_watch_probability)
                                     THEN "half" ELSE "full"
                              ELSE "skip"
                 /\ SessionStep(IF mode' = "skip" THEN "next" ELSE "watch")
         ELSE /\ SessionStep("quit")
              /\ UNCHANGED mode
    /\ itemSleeps' = {}
    /\ UNCHANGED <<c, args, behavior, flag, capVars, i, driver, quitCalls, fullWatches,
                   openTrace, watchVars, pathVars>>

\* line 233: watch_short(driver, behavior, mode) returns or a driver call raises;
\* a half watch sleeps once (line 202), a full watch sleeps in its loop unless
\* the first position read already ends it (lines 210-215)
SessWatch ==
    /\ mainPc = "session"
    /\ sessPc = "watch"
    /\ exc = "none"
    /\ \/ /\ SessionStep("next")
          /\ \E slept \in IF mode = "half" THEN {TRUE} ELSE BOOLEAN :
                itemSleeps' = IF slept THEN itemSleeps \cup {"watch"} ELSE itemSleeps
          /\ fullWatches' = IF mode = "full" THEN fullWatches + 1 ELSE fullWatches
       \/ /\ SessionRaise("Exception")
          /\ UNCHANGED <<itemSleeps, fullWatches>>
    /\ UNCHANGED <<c, args, behavior, flag, capVars, i, mode, driver, quitCalls, openTrace,
                   watchVars, pathVars>>

\* line 238: next_short(driver)
SessNext ==
    /\ mainPc = "session"
    /\ sessPc = "next"
    /\ exc = "none"
    /\ \/ SessionStep("pause")
       \/ SessionRaise("Exception")
    /\ UNCHANGED <<c, args, behavior, flag, capVars, i, mode, driver, quitCalls, itemSleeps,
                   fullWatches, openTrace, watchVars, pathVars>>

\* lines 122-127: maybe_idle sleeps when its draw is below idle_probability
MaybeIdle(r) == IF Chance(r, behavior.idle_probability) THEN {"idle"} ELSE {}

\* lines 239-240: the between-actions sleep and maybe_idle; next i
SessPause ==
    /\ mainPc = "session"
    /\ sessPc = "pause"
    /\ exc = "none"
    /\ SessionStep("item")
    /\ i' = i + 1
    /\ \E r \in Draws : itemSleeps' = itemSleeps \cup {"between_actions"} \cup MaybeIdle(r)
    /\ UNCHANGED <<c, args, behavior, flag, capVars, mode, driver, quitCalls, fullWatches,
                   openTrace, watchVars, pathVars>>

\* lines 244-245: finally: driver.quit(); then the function returns, or the
\* pending exception (or the one quit raised) reaches main
SessQuit ==
    /\ mainPc = "session"
    /\ sessPc = "quit"
    /\ quitCalls' = quitCalls + 1
    /\ driver' = "quit"
    /\ sessPc' = "idle"
    /\ \E ok \in BOOLEAN :
          /\ exc' = IF ok THEN exc ELSE "Exception"
          /\ mainPc' = IF exc' = "none" THEN "set" ELSE "except"
    /\ itemSleeps' = {}
    /\ fullWatches' = 0
    /\ openTrace' = <<>>
    /\ UNCHANGED <<c, args, behavior, flag, capVars, i, mode, watchVars, pathVars>>

Session ==
    \/ SessBuild
    \/ SessGet
    \/ SessSettle
    \/ SessCookie
    \/ SessVideo
    \/ SessIdle0
    \/ SessItem
    \/ SessWatch
    \/ SessNext
    \/ SessPause
    \/ SessQuit

\* Ctrl+C: KeyboardInterrupt is raised in the main thread wherever it is inside
\* the try block of main (lines 293-328)
Interrupt ==
    /\ mainPc \in TryPcs
    /\ exc = "none"
    /\ IF mainPc = "session" /\ sessPc # "build"
         THEN SessionRaise("KeyboardInterrupt")
         ELSE /\ exc' = "KeyboardInterrupt"
              /\ mainPc' = "except"
              /\ sessPc' = "idle"
    /\ UNCHANGED <<c, args, behavior, flag, capVars, i, mode, driver, quitCalls, itemSleeps,
                   fullWatches, openTrace, watchVars, pathVars>>

Main ==
    \/ MainFor
    \/ MainStart
    \/ MainWarmup
    \/ MainSet
    \/ MainJoin
    \/ MainCompleted
    \/ MainDelay
    \/ MainExcept
    \/ MainFinally
    \/ ProcessExit

Next ==
    \/ Main
    \/ Session
    \/ Interrupt
    \/ \E t \in Threads : Capture(t)

Spec == Init /\ [][Next]_vars

\* the main thread and every started capture thread keep being scheduled, and
\* every call they make returns or raises; Ctrl+C may or may not happen
Fairness ==
    /\ WF_vars(Main)
    /\ WF_vars(Session)
    /\ \A t \in Threads : WF_vars(Capture(t))

SpecFair == Spec /\ Fairness

\* ----------------------------------------------------------- watch_short()
\* what execute_script hands back: <<>> is None (no video, or a duration that
\* is not a finite number), <<n>> is the number n
RawValues == {<<>>, <<0>>, <<-100>>, <<40>>, <<300>>, <<500>>, <<550>>, <<3000>>, <<3010>>}

\* random.uniform(0.8, 1.2), in hundredths
Jitters == {80, 100, 120}

\* lines 164-172 and 175-183: float(x) if x else 0.0
ToFloat(raw) == IF Len(raw) = 0 THEN 0 ELSE IF raw[1] = 0 THEN 0 ELSE raw[1]

\* a resolution that keeps any positive duration, however long
ResolveDurationNoClamp(duration) ==
    IF duration <= 0 THEN behavior.fallback_duration_s ELSE duration

\* lines 196-197
ResolveDuration(duration) ==
    IF duration <= 0 \/ duration > behavior.max_duration_s
      THEN behavior.fallback_duration_s
      ELSE duration

\* a bound that counts the duration twice
MaxWaitDoubled == 2 * wDuration + behavior.full_watch_grace_s

\* line 208: max_wait = duration + behavior.full_watch_grace_s
MaxWait == wDuration + behavior.full_watch_grace_s

\* positions get_video_current_time may report in one iteration
Positions == {0, wDuration - PositionSlack - 10, wDuration - PositionSlack, wDuration}

\* lines 191-197: the call; ensure_video_playing, get_video_duration, resolve
WatchEnter ==
    /\ wPc = "idle"
    /\ \E m \in {"half", "full"}, raw \in RawValues :
          /\ wMode' = m
          /\ wReported' = ToFloat(raw)
          /\ wDuration' = ResolveDuration(ToFloat(raw))
    /\ wElapsed' = 0
    /\ wExit' = "none"
    /\ wPc' = "mode"
    /\ UNCHANGED <<mainVars, flag, capVars, sessVars, pathVars>>

\* lines 199-203: the half watch sleeps duration/2 * U(0.8, 1.2) and returns
WatchHalf ==
    /\ wPc = "mode"
    /\ wMode = "half"
    /\ \E j \in Jitters : wElapsed' = (wDuration * j) \div 200
    /\ wExit' = "half"
    /\ wPc' = "return"
    /\ UNCHANGED <<mainVars, flag, capVars, sessVars, pathVars, wMode, wReported, wDuration>>

\* lines 205-208: the full watch takes start and max_wait
WatchFull ==
    /\ wPc = "mode"
    /\ wMode = "full"
    /\ wElapsed' = 0
    /\ wPc' = "loop"
    /\ UNCHANGED <<mainVars, flag, capVars, sessVars, pathVars, wMode, wReported, wDuration,
                   wExit>>

\* lines 210-215: one iteration of the full-watch loop
WatchLoop ==
    /\ wPc = "loop"
    /\ \E pos \in Positions :
          IF pos >= wDuration - PositionSlack
            THEN /\ wExit' = "position"
                 /\ wPc' = "return"
                 /\ UNCHANGED wElapsed
            ELSE IF wElapsed > MaxWait
                   THEN /\ wExit' = "timeout"
                        /\ wPc' = "return"
                        /\ UNCHANGED wElapsed
                   ELSE /\ wElapsed' = wElapsed + SleepStep
                        /\ UNCHANGED <<wPc, wExit>>
    /\ UNCHANGED <<mainVars, flag, capVars, sessVars, pathVars, wMode, wReported, wDuration>>

\* watch_short has returned; the session may call it again
WatchReturn ==
    /\ wPc = "return"
    /\ wPc' = "idle"
    /\ UNCHANGED <<mainVars, flag, capVars, sessVars, pathVars, wMode, wReported, wDuration,
                   wElapsed, wExit>>

InitWatchShort ==
    /\ mainPc = "session"
    /\ c = 0
    /\ \E wp \in WatchProbInputs, hp \in HalfWatchProbInputs,
          md \in DurationArgs, fd \in DurationArgs, grace \in GraceValues :
          /\ args = [cycles |-> 1, shorts |-> 1, watch_prob |-> wp, half_watch_prob |-> hp,
                     max_duration |-> md, fallback_duration |-> fd]
          /\ behavior = [BuildBehavior(wp, hp, md, fd) EXCEPT !.full_watch_grace_s = grace]
    /\ exc = "none"
    /\ InitCapture
    /\ sessPc = "watch"
    /\ i = 0
    /\ mode = "none"
    /\ driver = "live"
    /\ quitCalls = 0
    /\ itemSleeps = {}
    /\ fullWatches = 0
    /\ openTrace = <<>>
    /\ InitWatch
    /\ InitPaths

NextWatch ==
    \/ WatchEnter
    \/ WatchHalf
    \/ WatchFull
    \/ WatchLoop
    \/ WatchReturn

SpecWatch == InitWatchShort /\ [][NextWatch]_vars

\* --------------------------------------------------- pcap_path (main, 299-300)
\* strings are sequences of one-character strings
DigitChars == <<"0", "1", "2", "3", "4", "5", "6", "7", "8", "9">>

\* str(n) for n >= 0
RECURSIVE Digits(_)
Digits(n) ==
    IF n < 10 THEN <<DigitChars[n + 1]>>
              ELSE Digits(n \div 10) \o <<DigitChars[(n % 10) + 1]>>

\* zero padding to a minimum width, as "%H" and ":03d" do: wider numbers are
\* never cut
RECURSIVE ZeroPad(_, _)
ZeroPad(str, width) ==
    IF Len(str) >= width THEN str ELSE ZeroPad(<<"0">> \o str, width)

\* --outdir and --prefix, the defaults
OutDir == <<"c", "a", "p", "t", "u", "r", "a", "s">>
Prefix == <<"s", "h", "o", "r", "t", "s", "_", "t", "r", "a", "f", "f", "i", "c">>

\* the clock values enumerated: seconds since 2026-11-01 00:00:00
ClockValues == {0, 1, 59, 60, 3599, 3600, 86399, 86400}

\* the cycle indexes c enumerated (the file is numbered c + 1)
CycleIndexes == {0, 1, 9, 99, 999, 1000}

\* line 299: datetime.now().strftime("%Y%m%d_%H%M%S")
Timestamp(t) ==
    LET day == t \div 86400
        sec == t % 86400
    IN  Digits(20261101 + day) \o <<"_">>
          \o ZeroPad(Digits(sec \div 3600), 2)
          \o ZeroPad(Digits((sec % 3600) \div 60), 2)
          \o ZeroPad(Digits(sec % 60), 2)

\* a file name made of the prefix and the timestamp alone
PcapPathNoCycle(cyc, t) ==
    OutDir \o <<"/">> \o Prefix \o <<"_">> \o Timestamp(t) \o <<".", "p", "c", "a", "p">>

\* line 300: os.path.join(outdir, f"{prefix}_{timestamp}_c{c+1:03d}.pcap")
PcapPath(cyc, t) ==
    OutDir \o <<"/">> \o Prefix \o <<"_">> \o Timestamp(t) \o <<"_", "c">>
      \o ZeroPad(Digits(cyc + 1), 3) \o <<".", "p", "c", "a", "p">>

\* lines 299-300 for one cycle of the run, at whatever time the clock shows
PathCompute ==
    /\ Cardinality(pcapPaths) < 2
    /\ \E cyc \in CycleIndexes, t \in ClockValues :
          /\ \A r \in pcapPaths : r.c # cyc
          /\ pcapPaths' = pcapPaths \cup {[c |-> cyc, timestamp |-> t, path |-> PcapPath(cyc, t)]}
    /\ UNCHANGED <<mainVars, flag, capVars, sessVars, watchVars>>

\* the run is over; another run starts with no path computed
PathReset ==
    /\ Cardinality(pcapPaths) = 2
    /\ pcapPaths' = {}
    /\ UNCHANGED <<mainVars, flag, capVars, sessVars, watchVars>>

InitPathRun ==
    /\ mainPc = "for"
    /\ c = 0
    /\ args = [cycles |-> 1001, shorts |-> 0, watch_prob |-> WatchProbabilityDefault,
               half_watch_prob |-> HalfWatchProbabilityDefault,
               max_duration |-> MaxDurationDefault,
               fallback_duration |-> FallbackDurationDefault]
    /\ behavior = BuildBehavior(WatchProbabilityDefault, HalfWatchProbabilityDefault,
                                MaxDurationDefault, FallbackDurationDefault)
    /\ exc = "none"
    /\ InitCapture
    /\ InitSession
    /\ InitWatch
    /\ InitPaths

NextPaths ==
    \/ PathCompute
    \/ PathReset

SpecPaths == InitPathRun /\ [][NextPaths]_vars

\* ------------------------------------------------------------------ claims

\* C1: once the flag is set, a capture thread finishes at most one more poll
\* (the one in flight, or the one it entered on a flag read made before the
\* set); once it has seen the flag it polls no more and only serializes and
\* returns
C1_StopLatency ==
    \A t \in Threads :
        /\ pollsAfterSet[t] <= 1
        /\ sawFlag[t] => capPc[t] \in {"wrpcap", "except", "killed"}

\* C1 witness: a thread finished one poll after the set, then saw the flag and
\* is serializing
C1_Witness ==
    \E t \in Threads : pollsAfterSet[t] = 1 /\ sawFlag[t] /\ capPc[t] = "wrpcap"

\* C2: every capture thread that has ended has called the serializer exactly
\* once
C2_ExactlyOneWrite ==
    \A t \in Threads : capPc[t] \in {"done", "killed"} => Len(wrpcapCalls[t]) = 1

\* C3: when join has returned and main goes on (logs the cycle, sleeps the
\* inter-cycle delay), the file of the cycle has been written; a run in which
\* wrpcap itself raised is not held against the claim
C3_JoinedMeansWritten ==
    mainPc \in {"completed", "delay"}
      => \/ pcapWritten[Cur]
         \/ Len(wrpcapCalls[Cur]) = 1 /\ ~pcapWritten[Cur]

\* C4: a sniff that raises while the flag is not set does not end the loop: the
\* thread is back at the loop test with its accumulator unchanged
C4_ErrorNonFatal ==
    [][\A t \in Threads :
         (~flag /\ ~sniffError[t] /\ sniffError'[t])
           => (capPc'[t] = "while" /\ captured'[t] = captured[t])]_vars

\* C5: a capture thread that ended after sniff raised has handed its accumulator
\* to the serializer
C5_ErrorStillSerializes ==
    \A t \in Threads : (capPc[t] = "done" /\ sniffError[t]) => Len(wrpcapCalls[t]) = 1

\* C6: main never reaches its end while a capture thread is still running, and
\* no capture thread is ever killed
C6_NoAbandonedCapture ==
    /\ mainPc \in {"done", "exited"} => \A t \in Threads : ~CaptureRunning(t)
    /\ \A t \in Threads : capPc[t] # "killed"

\* C7: after an interrupt or an error inside the cycle loop, the error stays
\* inside main (unwinding to the handler, then the final step), and the flag is
\* set by the time main is at its final "Done" step
C7_ErrorSetsFlag ==
    /\ exc # "none" => mainPc \in {"session", "except", "finally", "done", "exited"}
    /\ (exc # "none" /\ mainPc = "session") => sessPc = "quit"
    /\ (exc # "none" /\ mainPc \in {"finally", "done", "exited"}) => flag

\* C7 witness: an interrupt arrived while the first capture thread was running
\* and main is at "Done" with the flag set
C7_Witness ==
    /\ exc = "KeyboardInterrupt"
    /\ mainPc = "done"
    /\ flag
    /\ CaptureRunning(1)

\* C8: at most one capture thread is running, and a session runs only inside
\* the one call main makes per cycle
C8_NoOverlap ==
    /\ Cardinality({t \in Threads : CaptureRunning(t)}) <= 1
    /\ \A t \in Threads : (t > 1 /\ capPc[t] # "unstarted") => ~CaptureRunning(t - 1)
    /\ sessPc # "idle" => mainPc = "session"

\* C8 witness: the second cycle's capture thread runs after the first returned
C8_Witness ==
    /\ capPc[1] = "done"
    /\ CaptureRunning(2)
    /\ sessPc = "item"

\* C9: a driver that was built is quit exactly once, and it has been quit
\* whenever control is back in main, in particular when an error reaches main's
\* handler
C9_DriverQuitOnce ==
    /\ quitCalls <= 1
    /\ driver = "live" => (mainPc = "session" /\ sessPc # "idle" /\ quitCalls = 0)
    /\ driver = "quit" => quitCalls = 1

\* C9 witness: an error raised after the driver was built has reached main's
\* handler and the driver has been quit once
C9_Witness ==
    /\ mainPc = "except"
    /\ exc = "Exception"
    /\ driver = "quit"
    /\ quitCalls = 1

\* C10 as stated: the full-watch loop returns with at most duration +
\* full_watch_grace_s elapsed
C10_WithinGrace ==
    (wPc = "return" /\ wMode = "full")
      => wElapsed <= wDuration + behavior.full_watch_grace_s

\* C10 amended: the full-watch loop never has more than duration +
\* full_watch_grace_s plus one 1-second sleep elapsed
C10_WithinGracePlusSleep ==
    (wPc \in {"loop", "return"} /\ wMode = "full")
      => wElapsed <= wDuration + behavior.full_watch_grace_s + SleepStep

\* C10 witness: a full watch whose position never reached the end returned on
\* the time bound, later than duration + full_watch_grace_s
C10_Witness ==
    /\ wPc = "return"
    /\ wExit = "timeout"
    /\ wElapsed > wDuration + behavior.full_watch_grace_s

\* C11: the paths computed for two distinct cycles of one run differ, whatever
\* the timestamps, the same timestamp included
C11_PathsUnique ==
    \A a \in pcapPaths, b \in pcapPaths : a.c # b.c => a.path # b.path

\* C11 witness: two cycles, one numbered with three digits and one with four,
\* obtained the same timestamp
C11_Witness ==
    \E a \in pcapPaths, b \in pcapPaths :
        a.c = 0 /\ b.c = 1000 /\ a.timestamp = b.timestamp

\* C12: the duration used by watch_short is the fallback when the reported
\* duration is <= 0 or above max_duration_s, and the reported duration otherwise
C12_DurationResolution ==
    wPc # "idle" =>
        IF wReported <= 0 \/ wReported > behavior.max_duration_s
          THEN wDuration = behavior.fallback_duration_s
          ELSE wDuration = wReported

\* C12 witness: a reported duration above the maximum was replaced by a
\* fallback that differs from it
C12_Witness ==
    /\ wPc = "mode"
    /\ wReported > behavior.max_duration_s
    /\ wDuration = behavior.fallback_duration_s
    /\ wDuration # wReported

\* C13: whatever the four knobs on the command line, the Behavior main builds
\* has its probabilities in [0, 1] (above 1 becomes 1, below 0 becomes 0, in
\* range is unchanged) and its durations strictly positive
C13_BehaviorClamped ==
    LET b == BuildBehavior(args.watch_prob, args.half_watch_prob,
                           args.max_duration, args.fallback_duration)
        Clamped(in, out) ==
            /\ 0 <= out /\ out <= 100
            /\ in > 100 => out = 100
            /\ in < 0 => out = 0
            /\ (0 <= in /\ in <= 100) => out = in
    IN  /\ Clamped(args.watch_prob, b.watch_probability)
        /\ Clamped(args.half_watch_prob, b.half_watch_probability)
        /\ 0 <= b.idle_probability /\ b.idle_probability <= 100
        /\ b.max_duration_s > 0
        /\ b.fallback_duration_s > 0
        /\ b.full_watch_grace_s > 0
        /\ behavior.watch_probability = b.watch_probability
        /\ behavior.half_watch_probability = b.half_watch_probability
        /\ behavior.max_duration_s = b.max_duration_s
        /\ behavior.fallback_duration_s = b.fallback_duration_s

\* C13 witness: a run started with --watch-prob 1.7, --half-watch-prob -0.2 and
\* a negative --fallback-duration is watching a short
C13_Witness ==
    /\ args.watch_prob = 170 /\ behavior.watch_probability = 100
    /\ args.half_watch_prob = -20 /\ behavior.half_watch_probability = 0
    /\ args.fallback_duration = -100 /\ behavior.fallback_duration_s = MinDuration
    /\ wPc = "loop"

\* C14 as stated: with watch_probability 0 every short is skipped, watch_short
\* is never called, and the only sleep made for a short is the between-actions
\* one
C14_OnlyBetweenActionsSleep ==
    behavior.watch_probability = 0 =>
        /\ mode \in {"none", "skip"}
        /\ sessPc # "watch"
        /\ itemSleeps \subseteq {"between_actions"}

\* C14 amended: with watch_probability 0 every short is skipped, watch_short is
\* never called, and the sleeps made for a short are the between-actions one
\* and, after it, the idle pause of maybe_idle when its draw is below
\* idle_probability
C14_SkipWithPacingSleeps ==
    behavior.watch_probability = 0 =>
        /\ mode \in {"none", "skip"}
        /\ sessPc # "watch"
        /\ itemSleeps \subseteq {"between_actions", "idle"}
        /\ "idle" \in itemSleeps => "between_actions" \in itemSleeps

\* C14 witness: with --watch-prob below 0, the second short was skipped and both
\* pacing sleeps were made for it
C14_Witness ==
    /\ args.watch_prob < 0
    /\ behavior.watch_probability = 0
    /\ sessPc = "item"
    /\ i = 2
    /\ mode = "skip"
    /\ itemSleeps = {"between_actions", "idle"}

\* no capture thread saw sniff or wrpcap raise, and nothing was raised in main
NoCollaboratorFailure ==
    /\ exc = "none"
    /\ \A t \in Threads : ~sniffError[t] /\ (wrpcapCalls[t] # <<>> => pcapWritten[t])

\* C15: with watch_probability 1.0 and half_watch_probability 0.0 every short
\* of every session is a full watch, so a session that ends normally made one
\* full watch per short (3 per session, 6 over cycles=2, shorts=3), and a run
\* without collaborator failure wrote exactly one file per cycle
C15_AllFullWatches ==
    (behavior.watch_probability = 100 /\ behavior.half_watch_probability = 0) =>
        /\ mode \in {"none", "full"}
        /\ sessPc \in {"item", "watch"} => fullWatches = i
        /\ sessPc \in {"next", "pause"} => fullWatches = i + 1
        /\ (sessPc = "quit" /\ exc = "none") => fullWatches = args.shorts
        /\ (mainPc = "done" /\ NoCollaboratorFailure) =>
              /\ c = args.cycles
              /\ \A t \in Threads :
                    /\ pcapWritten[t] <=> t <= args.cycles
                    /\ Len(wrpcapCalls[t]) = IF t <= args.cycles THEN 1 ELSE 0

\* C15 witness: cycles=2, shorts=3, --watch-prob above 1 and --half-watch-prob
\* below 0: the second session is ending after its third full watch, the sixth
\* of the run, and the first cycle's file is written
C15_Witness ==
    /\ args.cycles = 2 /\ args.shorts = 3
    /\ behavior.watch_probability = 100 /\ behavior.half_watch_probability = 0
    /\ c = 1
    /\ sessPc = "quit" /\ exc = "none"
    /\ fullWatches = 3
    /\ pcapWritten[1]

\* C16: in a cycle the flag is cleared, then the capture thread is started, then
\* the session starts, then it finishes, then the flag is set, then main joins:
\* a capture thread is only started with the flag clear, the flag is never set
\* while a session is running, and the join only happens with the flag set
C16_CycleOrder ==
    [][ /\ \A t \in Threads :
              (capPc[t] = "unstarted" /\ capPc'[t] # "unstarted") =>
                  mainPc = "start" /\ t = Cur /\ ~flag /\ sessPc = "idle"
        /\ (sessPc = "idle" /\ sessPc' # "idle") =>
              mainPc = "warmup" /\ ~flag /\ capPc[Cur] # "unstarted"
        /\ (~flag /\ flag') =>
              /\ sessPc = "idle"
              /\ mainPc = "set" => driver = "quit" /\ capPc[Cur] # "unstarted"
        /\ (mainPc = "join" /\ mainPc' = "completed") =>
              flag /\ sessPc = "idle" /\ capPc[Cur] = "done"
        /\ sessPc' # "idle" => ~flag'
        /\ mainPc' \in {"start", "warmup", "session", "set"} => ~flag'
        /\ mainPc' \in {"join", "completed", "delay"} => flag' /\ sessPc' = "idle"
      ]_vars

\* C16 witness: the second cycle of a run has completed normally, after a
\* first cycle that left the flag set
C16_Witness ==
    /\ c = 1
    /\ mainPc = "completed"
    /\ exc = "none"
    /\ flag
    /\ capPc[1] = "done" /\ capPc[2] = "done"
    /\ driver = "quit"

\* C17: once an exception or a KeyboardInterrupt has been raised in main or in
\* the session, no further cycle starts: no capture thread is started, no
\* driver is built, the flag is never cleared again and the loop does not advance
C17_NoFurtherCycle ==
    [][ exc # "none" =>
          /\ \A t \in Threads : capPc[t] = "unstarted" => capPc'[t] = "unstarted"
          /\ driver # "live" => driver' # "live"
          /\ flag => flag'
          /\ c' = c
          /\ exc' # "none"
          /\ mainPc' \notin {"for", "start", "warmup"}
      ]_vars

\* C17 witness: the session of the first of two cycles raised, main has logged
\* "Done." and the second cycle never started
C17_Witness ==
    /\ args.cycles = 2
    /\ c = 0
    /\ exc = "Exception"
    /\ mainPc = "done"
    /\ driver = "quit"
    /\ flag
    /\ capPc[2] = "unstarted"

\* the concatenation, in order, of a sequence of packet lists
RECURSIVE Flatten(_)
Flatten(lists) == IF lists = <<>> THEN <<>> ELSE Head(lists) \o Flatten(Tail(lists))

\* C18: when the capture loop has left on the flag without a sniff error, the
\* list handed to wrpcap is the concatenation, in call order, of the lists the
\* sniff calls of that thread returned: nothing dropped, duplicated or reordered
C18_SerializesConcatenation ==
    [][ \A t \in Threads :
          /\ capPc'[t] \in {"while", "sniff", "wrpcap"} => captured'[t] = Flatten(polled'[t])
          /\ (wrpcapCalls'[t] # wrpcapCalls[t] /\ ~sniffError[t]) =>
                /\ sawFlag[t]
                /\ wrpcapCalls'[t] = <<Flatten(polled[t])>>
      ]_vars

\* C18 witness: the loop of the first thread has left on the flag after two
\* polls that returned one packet each, and wrpcap is about to get both
C18_Witness ==
    /\ capPc[1] = "wrpcap"
    /\ sawFlag[1]
    /\ ~sniffError[1]
    /\ polled[1] = << <<1>>, <<2>> >>
    /\ captured[1] = <<1, 2>>

\* C19 as stated: in open_shorts the settle sleep comes only after the wait for
\* the video element and after the consent dismissal
C19_SettleAfterWaitAndConsent ==
    \A k \in DOMAIN openTrace :
        openTrace[k] = "settle" =>
            /\ \E j \in 1..(k - 1) : openTrace[j] = "video"
            /\ \E j \in 1..(k - 1) : openTrace[j] \in {"cookie_clicked", "cookie_failed"}

\* C19 amended: open_shorts navigates, then makes the settle sleep, then the
\* best-effort consent dismissal, then waits for the video element; and a
\* failed consent dismissal is followed by the wait for the video element, not
\* by an exception
C19_OpenOrder ==
    /\ \A k \in DOMAIN openTrace :
          /\ openTrace[k] \in {"get", "get_failed"} => k = 1
          /\ openTrace[k] = "settle" => k = 2 /\ openTrace[1] = "get"
          /\ openTrace[k] \in {"cookie_clicked", "cookie_failed"} =>
                k = 3 /\ openTrace[2] = "settle"
          /\ openTrace[k] \in {"video", "video_failed"} =>
                k = 4 /\ openTrace[3] \in {"cookie_clicked", "cookie_failed"}
    /\ sessPc = "idle0" => Len(openTrace) = 4 /\ openTrace[4] = "video"
    /\ (Len(openTrace) = 3 /\ openTrace[3] = "cookie_failed") =>
          \/ sessPc = "video" /\ exc = "none"
          \/ exc = "KeyboardInterrupt"

\* C19 witness: open_shorts has returned after a consent dismissal that failed
C19_Witness ==
    /\ sessPc = "idle0"
    /\ exc = "none"
    /\ openTrace = <<"get", "settle", "cookie_failed", "video">>

\* C20: under weak fairness of the main thread and of the capture threads,
\* every run reaches the "Done." step of main, whatever the number of cycles
\* and shorts, also when a capture thread died on a sniff error or the session
\* raised
C20_Terminates == <>(mainPc = "done")

\* C20 witness: main logged "Done." after a cycle completed normally although
\* its capture thread had died on a sniff error: the join returned
C20_Witness ==
    /\ mainPc = "done"
    /\ exc = "none"
    /\ c = 1
    /\ sniffError[1]
    /\ ~pcapWritten[1]
    /\ capPc[1] = "done"

====
